---- MODULE Spec2Model ----
(***************************************************************************)
(* PyPulse: the shared state store (pypulse_state.py) and the progress     *)
(* wrapper (pypulse.py).                                                   *)
(*                                                                         *)
(* Optional values (Python None) are sequences of length 0 or 1:           *)
(* None == <<>>, Some(x) == <<x>>.  Floats that the program computes as    *)
(* n / total are exact fractions <<num, den>> in lowest terms, den > 0.    *)
(* One clock (now) stands for datetime.now() and time.time(); its unit is  *)
(* an abstract tick, and the intervals of the program (mininterval, the    *)
(* idle threshold) are counted in ticks.                                   *)
(***************************************************************************)
EXTENDS Integers, Sequences, FiniteSets, TLC

VARIABLES
    progress,   \* content of progress.json
    history,    \* content of history.json: the completed_tasks list
    now,        \* the clock
    tr,         \* the PulseProgress object and its generator
    out,        \* the items the generator of tr has yielded so far
    log,        \* the task names passed to complete_task, oldest first
    ts,         \* the PulseTask object and the position of its with block
    position,   \* content of widget_position.json
    files,      \* the condition of each of the three files on disk
    ret,        \* the outcome of the last store call made under FaultSpec
    disk,       \* the bytes of progress.json and the write in progress
    seen,       \* what the consumer process last read from progress.json
    upd,        \* the threads that are inside update_progress
    thr,        \* the threads that are inside update(n) of the tracker tr
    cmp,        \* the thread that is inside complete_task, holding the lock
    reap,       \* the reaper thread between its read and its write
    obs,        \* what a thread of the producer process last read
    alive,      \* the producer still issues calls
    ini         \* the processes constructing a PulseState

\* what the store operations and the tracker leave alone
aux ==
    <<log, ts, position, files, ret, disk, seen, upd, thr, cmp, reap, obs,
      alive, ini>>

\* what the producer of HistorySpec leaves alone
auxHistory ==
    <<ts, position, files, ret, disk, seen, upd, thr, cmp, reap, obs, alive,
      ini>>

\* what the PulseTask session leaves alone
auxSession ==
    <<log, position, files, ret, disk, seen, upd, thr, cmp, reap, obs, alive,
      ini>>

\* what the store calls on damaged files leave alone
auxFault ==
    <<now, tr, out, log, ts, disk, seen, upd, thr, cmp, reap, obs, alive,
      ini>>

\* what a write of progress.json and the consumer leave alone
auxWrite ==
    <<history, tr, out, log, ts, position, files, ret, upd, thr, cmp, reap,
      obs, alive, ini>>

\* what a thread inside update_progress leaves alone
auxUpdate ==
    <<history, now, tr, out, log, ts, position, files, ret, disk, seen, thr,
      cmp, reap, obs, alive, ini>>

\* what a thread inside update(n) leaves alone
auxCounter ==
    <<now, out, log, ts, position, files, ret, disk, seen, upd, cmp, reap,
      obs, alive, ini>>

vars ==
    <<progress, history, now, tr, out, log, ts, position, files, ret, disk,
      seen, upd, thr, cmp, reap, obs, alive, ini>>

-----------------------------------------------------------------------------
(* Bounds of the model *)

MaxTime == 2          \* the clock runs over 0..MaxTime
MaxCompletes == 2     \* direct complete_task calls in one behaviour
MaxLen == 2           \* length of a wrapped sequence
MaxCloses == 2        \* close() calls on one tracker before another is refused
MaxUpdates == 1       \* explicit update(n) calls on one tracker
MaxLogged == 12       \* complete_task calls in one behaviour of HistorySpec
MaxSteps == 3         \* step() calls on one PulseTask
MaxReads == 1         \* polls of the consumer in one behaviour
MaxInits == 2         \* PulseState() constructions of one process

(* Program constants *)

HistoryCap == 10      \* history["completed_tasks"][:10]
OwnPid == 1           \* os.getpid()
MaxIdleSeconds == 1   \* max_idle_seconds = 300; one tick of the clock is 300 s

-----------------------------------------------------------------------------
(* Values *)

None == <<>>
Some(x) == <<x>>
Truthy(opt) == opt # None

Abs(i) == IF i < 0 THEN -i ELSE i

RECURSIVE GCD(_, _)
GCD(a, b) == IF b = 0 THEN a ELSE GCD(b, a % b)

\* the float n / d, d > 0
Frac(n, d) ==
    LET g == GCD(Abs(n), d)
    IN  <<n \div g, d \div g>>

Zero == <<0, 1>>
One == <<1, 1>>

Less(p, q) == p[1] * q[2] < q[1] * p[2]

\* Python min(a, b): b when b < a, else a; max(a, b): b when b > a, else a
PyMin(a, b) == IF Less(b, a) THEN b ELSE a
PyMax(a, b) == IF Less(a, b) THEN b ELSE a

\* int(a / b) for b > 0: truncation toward zero
Trunc(a, b) == IF a >= 0 THEN a \div b ELSE -((-a) \div b)

Tasks == {"T", "U"}
Steps == {<<"Step 1/3: Testing">>}
ProgressInputs == {<<-3, 10>>, Zero, <<1, 2>>, One, <<17, 10>>}
\* the optional arguments eta_seconds, error, pid of update_progress
Optionals ==
    {[eta_seconds |-> None, error |-> None, pid |-> None],
     [eta_seconds |-> Some(120), error |-> None, pid |-> None],
     [eta_seconds |-> None, error |-> Some("ValueError: Test error"),
      pid |-> None]}

-----------------------------------------------------------------------------
(* The store: pypulse_state.py.  Operators take the content of the files   *)
(* they read (current, completed_tasks) and the time of the call (t).      *)

\* the record _ensure_files_exist writes when progress.json does not exist
InactiveTemplate ==
    [active |-> FALSE, task_name |-> None, current_step |-> None,
     progress |-> Zero, eta_seconds |-> None, started_at |-> None,
     last_update |-> None, error |-> None, pid |-> None]

_get_started_at_Restamp(current) == None

_get_started_at(current) == current.started_at

Clamp_NoUpper(p) == PyMax(Zero, p)

\* max(0.0, min(1.0, progress))
Clamp(p) == PyMax(Zero, PyMin(One, p))

\* the record update_progress writes
\* eta_seconds is not stored
update_progress_state_NoEta(current, t, task_name, current_step, p, eta_seconds, error, pid) ==
    [active |-> TRUE,
     task_name |-> Some(task_name),
     current_step |-> Some(current_step),
     progress |-> Clamp(p),
     eta_seconds |-> None,
     started_at |-> Some(t),
     last_update |-> Some(t),
     error |-> error,
     pid |-> Some(OwnPid)]

update_progress_state(current, t, task_name, current_step, p, eta_seconds, error, pid) ==
    [active |-> TRUE,
     task_name |-> Some(task_name),
     current_step |-> Some(current_step),
     progress |-> Clamp(p),
     eta_seconds |-> eta_seconds,
     started_at |-> IF Truthy(_get_started_at(current))
                    THEN _get_started_at(current)
                    ELSE Some(t),
     last_update |-> Some(t),
     error |-> error,
     pid |-> IF Truthy(pid) /\ pid # Some(0) THEN pid ELSE Some(OwnPid)]

_calculate_duration(current, t) ==
    IF Truthy(current.started_at)
    THEN Some(t - current.started_at[1])
    ELSE None

Take_NoCap(s, k) == s

Take(s, k) == IF Len(s) <= k THEN s ELSE SubSeq(s, 1, k)

complete_task_history_Append(current, completed_tasks, t, task_name) ==
    LET completed_task ==
            [task_name |-> task_name, completed_at |-> t,
             duration_seconds |-> _calculate_duration(current, t)]
    IN  Take(completed_tasks \o <<completed_task>>, HistoryCap)

\* an entry named after the task of the record that is cleared
complete_task_history_RecordName(current, completed_tasks, t, task_name) ==
    LET completed_task ==
            [task_name |-> IF Truthy(current.task_name)
                           THEN current.task_name[1] ELSE task_name,
             completed_at |-> t,
             duration_seconds |-> _calculate_duration(current, t)]
    IN  Take(<<completed_task>> \o completed_tasks, HistoryCap)

\* the completed_tasks list complete_task writes
complete_task_history(current, completed_tasks, t, task_name) ==
    LET completed_task ==
            [task_name |-> task_name, completed_at |-> t,
             duration_seconds |-> _calculate_duration(current, t)]
    IN  Take(<<completed_task>> \o completed_tasks, HistoryCap)

\* the record complete_task writes
complete_task_state ==
    [active |-> FALSE, task_name |-> None, current_step |-> None,
     progress |-> Zero, eta_seconds |-> None, started_at |-> None,
     last_update |-> None, error |-> None, pid |-> None]

\* a reaper that never writes
clear_stale_progress_state_Never(state, t, max_idle_seconds) == state

clear_stale_progress_state_Wipe(state, t, max_idle_seconds) ==
    IF /\ state.active
       /\ Truthy(state.last_update)
       /\ t - state.last_update[1] > max_idle_seconds
    THEN [InactiveTemplate EXCEPT !.task_name = state.task_name]
    ELSE state

\* a reaper that keeps started_at
clear_stale_progress_state_KeepStart(state, t, max_idle_seconds) ==
    IF /\ state.active
       /\ Truthy(state.last_update)
       /\ t - state.last_update[1] > max_idle_seconds
    THEN [state EXCEPT !.active = FALSE, !.eta_seconds = None,
                       !.last_update = None, !.pid = None]
    ELSE state

\* the record clear_stale_progress writes over an idle active record
clear_stale_progress_state(state, t, max_idle_seconds) ==
    IF /\ state.active
       /\ Truthy(state.last_update)
       /\ t - state.last_update[1] > max_idle_seconds
    THEN [active |-> FALSE, task_name |-> state.task_name,
          current_step |-> state.current_step, progress |-> state.progress,
          eta_seconds |-> None, started_at |-> None, last_update |-> None,
          error |-> state.error, pid |-> None]
    ELSE state

\* the record after one more reaper tick at time t
Reaped(state, t) == clear_stale_progress_state(state, t, MaxIdleSeconds)

Stale(state, t) ==
    /\ state.active
    /\ Truthy(state.last_update)
    /\ t - state.last_update[1] > MaxIdleSeconds

-----------------------------------------------------------------------------
(* Store operations called directly by a producer *)

update_progress(task_name, current_step, p, eta_seconds, error, pid) ==
    /\ progress' = update_progress_state(progress, now, task_name,
                                         current_step, p, eta_seconds, error,
                                         pid)
    /\ UNCHANGED <<history, now, tr, out, aux>>

complete_task(task_name) ==
    /\ Len(history) < MaxCompletes
    /\ history' = complete_task_history(progress, history, now, task_name)
    /\ progress' = complete_task_state
    /\ UNCHANGED <<now, tr, out, aux>>

\* one tick of _cleanup_worker
clear_stale_progress ==
    /\ progress' = clear_stale_progress_state(progress, now, MaxIdleSeconds)
    /\ UNCHANGED <<history, now, tr, out, aux>>

\* time passes
Tick ==
    /\ now < MaxTime
    /\ now' = now + 1
    /\ UNCHANGED <<progress, history, tr, out, aux>>

-----------------------------------------------------------------------------
(* The progress wrapper: class PulseProgress of pypulse.py.                *)
(* A tracker operator takes a world w = [tr, progress, history] and the    *)
(* time of the call and returns the world it leaves.                       *)

\* a list of N items: list(range(N))
Range(N) == [i \in 1..N |-> i - 1]

Iterables == {None} \cup {Some(Range(N)) : N \in 0..MaxLen}
TotalInputs == {None, Some(1)}
InitialInputs == {0, 1}
MinIntervals == {0, 1}
Increments == {1, 2}

\* closes, completes and last record the calls made on the tracker: the
\* calls of close(), the calls of complete_task made by close(), and the
\* method that ran last.
\* pc: "unborn" before construction; "ready" constructed, generator not
\* started; "suspended" generator paused at its yield; "exhausted" generator
\* returned; "abandoned" generator closed by its consumer at the yield
NoTracker ==
    [pc |-> "unborn", iterable |-> None, desc |-> "T", step |-> "1/1",
     total |-> None, disable |-> FALSE, initial |-> 0, n |-> 0,
     start_t |-> 0, last_update_t |-> 0, mininterval |-> 0,
     closes |-> 0, completes |-> 0, updates |-> 0, last |-> "none"]

World == [tr |-> tr, progress |-> progress, history |-> history]

\* if self.total: a total of None or 0 is falsy
HasTotal(t) == Truthy(t.total) /\ t.total # Some(0)

_calculate_eta(t, time) ==
    IF ~HasTotal(t) \/ t.n <= 0 THEN None
    ELSE LET elapsed == time - t.start_t
         IN  IF elapsed > 0
             THEN Some(Trunc((t.total[1] - t.n) * elapsed, t.n))
             ELSE None

\* f"{self.step}: {self.n}/{self.total or '?'}{self.unit}"
StepLabel(t) == <<t.step, t.n, IF HasTotal(t) THEN t.total ELSE None>>

\* a snapshot that carries the share of the work that remains
_report_progress_Remaining(w, time) ==
    LET t == w.tr
        p == IF HasTotal(t) THEN Frac(t.total[1] - t.n, t.total[1]) ELSE Zero
    IN  IF t.disable THEN w
        ELSE [w EXCEPT !.progress =
                update_progress_state(w.progress, time, t.desc, StepLabel(t),
                                      p, None, None, None)]

_report_progress(w, time) ==
    LET t == w.tr
        p == IF HasTotal(t) THEN Frac(t.n, t.total[1]) ELSE Zero
        eta == IF HasTotal(t) THEN _calculate_eta(t, time) ELSE None
    IN  IF t.disable THEN w
        ELSE [w EXCEPT !.progress =
                update_progress_state(w.progress, time, t.desc, StepLabel(t),
                                      p, eta, None, None)]

\* PulseProgress.__init__
PulseProgress(iterable, total, disable, initial, mininterval, time) ==
    LET t == [pc |-> "ready", iterable |-> iterable, desc |-> "T",
              step |-> "1/1",
              total |-> IF total = None /\ Truthy(iterable)
                        THEN Some(Len(iterable[1])) ELSE total,
              disable |-> disable, initial |-> initial, n |-> initial,
              start_t |-> time,
              last_update_t |-> time, mininterval |-> mininterval,
              closes |-> 0, completes |-> 0, updates |-> 0,
              last |-> "__init__"]
        w == [tr |-> t, progress |-> progress, history |-> history]
    IN  IF ~disable THEN _report_progress(w, time) ELSE w

\* an update that reports whatever the time since the last snapshot
update_NoThrottle(w, time, k) ==
    IF w.tr.disable THEN w
    ELSE [_report_progress([w EXCEPT !.tr.n = @ + k, !.tr.last = "update"],
                           time)
             EXCEPT !.tr.last_update_t = time]

\* PulseProgress.update
update(w, time, k) ==
    IF w.tr.disable THEN w
    ELSE LET added == [w EXCEPT !.tr.n = @ + k, !.tr.last = "update"]
         IN  IF time - added.tr.last_update_t >= added.tr.mininterval
             THEN [_report_progress(added, time)
                      EXCEPT !.tr.last_update_t = time]
             ELSE added

close_IgnoresDisable(w, time) ==
    LET t == w.tr
    IN  IF t.n > 0
        THEN [tr |-> [t EXCEPT !.closes = @ + 1, !.completes = @ + 1,
                               !.last = "close"],
              progress |-> complete_task_state,
              history |-> complete_task_history(w.progress, w.history, time,
                                                t.desc)]
        ELSE [w EXCEPT !.tr.closes = @ + 1, !.tr.last = "close"]

\* PulseProgress.close
close(w, time) ==
    LET t == w.tr
    IN  IF ~t.disable /\ t.n > 0
        THEN [tr |-> [t EXCEPT !.closes = @ + 1, !.completes = @ + 1,
                               !.last = "close"],
              progress |-> complete_task_state,
              history |-> complete_task_history(w.progress, w.history, time,
                                                t.desc)]
        ELSE [w EXCEPT !.tr.closes = @ + 1, !.tr.last = "close"]

\* one next() on the generator PulseProgress.__iter__ returns: the world it
\* leaves and the item it yields (None when it returns without yielding)
\* a generator that counts an element before it yields it
__iter___CountFirst(w, time, yielded) ==
    LET t == w.tr
        items == IF Truthy(t.iterable) THEN t.iterable[1] ELSE <<>>
    IN  IF t.pc = "ready" /\ (t.disable \/ t.iterable = None)
        THEN [w |-> [w EXCEPT !.tr.pc = "exhausted"], item |-> None]
        ELSE IF Len(yielded) < Len(items)
        THEN [w |-> [update(w, time, 1) EXCEPT !.tr.pc = "suspended"],
              item |-> Some(items[Len(yielded) + 1])]
        ELSE [w |-> [close(w, time) EXCEPT !.tr.pc = "exhausted"],
              item |-> None]

__iter__(w, time, yielded) ==
    LET t == w.tr
        items == IF Truthy(t.iterable) THEN t.iterable[1] ELSE <<>>
        resumed == IF t.pc = "suspended" THEN update(w, time, 1) ELSE w
    IN  IF t.pc = "ready" /\ (t.disable \/ t.iterable = None)
        THEN [w |-> [w EXCEPT !.tr.pc = "exhausted"], item |-> None]
        ELSE IF Len(yielded) < Len(items)
        THEN [w |-> [resumed EXCEPT !.tr.pc = "suspended"],
              item |-> Some(items[Len(yielded) + 1])]
        ELSE [w |-> [close(resumed, time) EXCEPT !.tr.pc = "exhausted"],
              item |-> None]

Commit(w) ==
    /\ tr' = w.tr
    /\ progress' = w.progress
    /\ history' = w.history

\* a producer constructs the tracker
NewTracker ==
    /\ tr.pc = "unborn"
    /\ \E iterable \in Iterables, total \in TotalInputs, disable \in BOOLEAN,
          initial \in InitialInputs, mininterval \in MinIntervals :
          Commit(PulseProgress(iterable, total, disable, initial, mininterval,
                               now))
    /\ UNCHANGED <<now, out, aux>>

\* the consumer's for loop asks the generator for the next item
IterNext ==
    /\ tr.pc \in {"ready", "suspended"}
    /\ LET r == __iter__(World, now, out)
       IN  /\ Commit(r.w)
           /\ out' = out \o r.item
    /\ UNCHANGED <<now, aux>>

\* the consumer leaves its loop early (break, or a failure in the loop
\* body): the suspended generator is closed and its finally clause runs
IterAbandon ==
    /\ tr.pc = "suspended"
    /\ Commit([close(World, now) EXCEPT !.tr.pc = "abandoned"])
    /\ UNCHANGED <<now, out, aux>>

\* an explicit update(n) of the producer
UpdateCall ==
    /\ tr.pc # "unborn"
    /\ tr.updates < MaxUpdates
    /\ \E k \in Increments :
          Commit([update(World, now, k) EXCEPT !.tr.updates = @ + 1])
    /\ UNCHANGED <<now, out, aux>>

\* close() called from __exit__, from the atexit hook or by the producer
CloseCall ==
    /\ tr.pc # "unborn"
    /\ tr.closes < MaxCloses
    /\ Commit(close(World, now))
    /\ UNCHANGED <<now, out, aux>>

-----------------------------------------------------------------------------
\* the keys of the progress document, in the order json.dump writes them
FieldOrder ==
    <<"active", "task_name", "current_step", "progress", "eta_seconds",
      "started_at", "last_update", "error", "pid">>

\* json.dump(data, f): the text of a document, one member after the other
Serialize(data) == [i \in 1..Len(FieldOrder) |-> <<FieldOrder[i], data[FieldOrder[i]]>>]

\* json.load of a text: the document, or None where the text is not one
Parse(text) ==
    IF Len(text) = Len(FieldOrder)
    THEN Some([k \in {FieldOrder[i] : i \in 1..Len(FieldOrder)} |->
                  (CHOOSE m \in {text[i] : i \in 1..Len(text)} : m[1] = k)[2]])
    ELSE None

\* the threads of the producer process
Threads == {1, 2}

\* a thread that is not inside update_progress
IdleCall == [pc |-> "idle", task_name |-> "T", t |-> 0, started |-> None]

\* a thread that is not inside update(n).  added and initial are history
\* variables: the sum of the increments of the update calls the thread has
\* finished, and the counter the tracker was constructed with.
IdleUpdate ==
    [pc |-> "idle", k |-> 0, loaded |-> 0, calls |-> 0, added |-> 0,
     initial |-> 0]

\* no thread is inside complete_task.  dirty is a history variable: the
\* progress record changed between the read of complete_task and its reset.
IdleComplete ==
    [pc |-> "idle", task_name |-> "T", current |-> InactiveTemplate,
     dirty |-> FALSE]

\* the reaper sleeps.  wrong is a history variable: the reaper wrote over a
\* record that was not active and idle beyond the threshold.
IdleReaper == [pc |-> "idle", record |-> InactiveTemplate, wrong |-> FALSE]

\* nothing was read yet.  mid is a history variable: the read was made
\* between the history write and the progress reset of a complete_task.
NoRead == [read |-> FALSE, mid |-> FALSE]

\* the processes that use the data directory: a producer and the widget
Processes == {1, 2}

\* every process has constructed its PulseState.  file is the position of a
\* process in FileOrder, runs counts its constructions, and clobbered is a
\* history variable: a template was written over a document that existed.
Constructed ==
    [proc |-> [p \in Processes |-> [pc |-> "done", file |-> 1, runs |-> 0]],
     fresh |-> FALSE, clobbered |-> FALSE]

\* the three state files
FileNames == {"progress", "history", "position"}

\* no PulseTask has been made
NoSession ==
    [pc |-> "none", task_name |-> "T", total_steps |-> 1, current_step |-> 0,
     start_time |-> None, closed |-> FALSE, calls |-> 0, exit |-> "none",
     early |-> FALSE, closing |-> FALSE]

Init ==
    /\ progress = InactiveTemplate
    /\ history = <<>>
    /\ now = 0
    /\ tr = NoTracker
    /\ out = <<>>
    /\ log = <<>>
    /\ ts = NoSession
    /\ position = [x |-> 100, y |-> 100]
    /\ files = [f \in FileNames |-> "ok"]
    /\ ret = [op |-> "none", kind |-> "ok", raised |-> "none", value |-> None]
    /\ disk = [content |-> Serialize(InactiveTemplate), pending |-> None]
    /\ seen = [reads |-> 0, content |-> Serialize(InactiveTemplate),
               old |-> InactiveTemplate, new |-> InactiveTemplate]
    /\ upd = [th \in Threads |-> IdleCall]
    /\ thr = [th \in Threads |-> IdleUpdate]
    /\ cmp = IdleComplete
    /\ reap = IdleReaper
    /\ obs = NoRead
    /\ alive = TRUE
    /\ ini = Constructed

UpdateProgressCall ==
    \E t \in Tasks, s \in Steps, p \in ProgressInputs, o \in Optionals :
        update_progress(t, s, p, o.eta_seconds, o.error, o.pid)

CompleteTaskCall == \E t \in Tasks : complete_task(t)

\* a producer that calls the store directly, the reaper and the clock
Next ==
    \/ UpdateProgressCall
    \/ CompleteTaskCall
    \/ clear_stale_progress
    \/ Tick

Spec == Init /\ [][Next]_vars

\* a producer that drives the store through one tracker
TrackerNext ==
    \/ NewTracker
    \/ IterNext
    \/ IterAbandon
    \/ UpdateCall
    \/ CloseCall
    \/ clear_stale_progress
    \/ Tick

TrackerSpec == Init /\ [][TrackerNext]_vars

-----------------------------------------------------------------------------
(* PulseTask (pypulse.py): one session and its with block.  The operators  *)
(* map a world [ts, progress, history] and the time of the call to the     *)
(* world after it.  calls, exit, early and closing are history variables:  *)
(* calls counts the step() calls made inside the with block, exit records  *)
(* how the block was left, early whether close() was called inside it and  *)
(* closing whether close() was called at all.                              *)

TotalSteps == {0, 1, 2}
Descriptions == {"Step 1"}
StepProgress == {None, Some(<<1, 2>>)}
Failures == {None, Some("ValueError: Test error")}

SessionWorld == [ts |-> ts, progress |-> progress, history |-> history]

\* current_step / total_steps if total_steps > 0 else 0.0
StepRatio(t) ==
    IF t.total_steps > 0 THEN Frac(t.current_step, t.total_steps) ELSE Zero

PulseTask(task_name, total_steps) ==
    [NoSession EXCEPT !.pc = "made", !.task_name = task_name,
                      !.total_steps = total_steps]

PulseTask__enter__(w, time) ==
    [w EXCEPT !.ts.pc = "entered",
              !.ts.start_time = Some(time),
              !.progress = update_progress_state(w.progress, time,
                               w.ts.task_name, <<"Starting...">>, Zero, None,
                               None, None)]

\* a close() that does not look at self.closed
PulseTask_close_Again(w, time) ==
    IF Truthy(w.ts.start_time)
    THEN [w EXCEPT !.ts.closed = TRUE,
                   !.history = complete_task_history(w.progress, w.history,
                                   time, w.ts.task_name),
                   !.progress = complete_task_state]
    ELSE w

PulseTask_close(w, time) ==
    IF ~w.ts.closed /\ Truthy(w.ts.start_time)
    THEN [w EXCEPT !.ts.closed = TRUE,
                   !.history = complete_task_history(w.progress, w.history,
                                   time, w.ts.task_name),
                   !.progress = complete_task_state]
    ELSE w

PulseTask__exit___Swallow(w, time, exc) == PulseTask_close(w, time)

\* an __exit__ that publishes the error before it closes the session
PulseTask__exit___ErrorFirst(w, time, exc) ==
    IF Truthy(exc)
    THEN PulseTask_close(
             [w EXCEPT !.progress = update_progress_state(w.progress, time,
                                        w.ts.task_name, <<"Error occurred">>,
                                        StepRatio(w.ts), None, exc, None)],
             time)
    ELSE PulseTask_close(w, time)

\* exc is None when the block ends normally, else the text
\* f"{exc_type.__name__}: {exc_val}"
PulseTask__exit__(w, time, exc) ==
    LET c == PulseTask_close(w, time)
    IN  IF Truthy(exc)
        THEN [c EXCEPT !.progress = update_progress_state(c.progress, time,
                                        c.ts.task_name, <<"Error occurred">>,
                                        StepRatio(c.ts), None, exc, None)]
        ELSE c

\* a step() that refuses calls beyond total_steps
PulseTask_step_Bounded(w, time, description, p) ==
    IF w.ts.closed \/ w.ts.current_step >= w.ts.total_steps
    THEN w
    ELSE LET t == [w.ts EXCEPT !.current_step = @ + 1]
         IN  [w EXCEPT !.ts = t,
                       !.progress = update_progress_state(w.progress, time,
                           t.task_name,
                           <<"Step", t.current_step, t.total_steps,
                             description>>,
                           IF p = None THEN StepRatio(t) ELSE p[1],
                           None, None, None)]

PulseTask_step(w, time, description, p) ==
    IF w.ts.closed
    THEN w
    ELSE LET t == [w.ts EXCEPT !.current_step = @ + 1]
         IN  [w EXCEPT !.ts = t,
                       !.progress = update_progress_state(w.progress, time,
                           t.task_name,
                           <<"Step", t.current_step, t.total_steps,
                             description>>,
                           IF p = None THEN StepRatio(t) ELSE p[1],
                           None, None, None)]

PulseTask_update_progress(w, time, p, description) ==
    IF w.ts.closed
    THEN w
    ELSE [w EXCEPT !.progress = update_progress_state(w.progress, time,
                       w.ts.task_name,
                       IF Truthy(description)
                       THEN description
                       ELSE <<"Step", w.ts.current_step, w.ts.total_steps>>,
                       p, None, None, None)]

SessionCommit(w) ==
    /\ ts' = w.ts
    /\ progress' = w.progress
    /\ history' = w.history
    /\ UNCHANGED <<now, tr, out, auxSession>>

\* pulse_task(task_name, total_steps)
NewSession ==
    /\ ts.pc = "none"
    /\ \E task_name \in Tasks, total_steps \in TotalSteps :
          SessionCommit([SessionWorld EXCEPT
                             !.ts = PulseTask(task_name, total_steps)])

\* with ... as task:
SessionEnter ==
    /\ ts.pc = "made"
    /\ SessionCommit(PulseTask__enter__(SessionWorld, now))

\* task.step(description, progress) inside or after the block
SessionStep ==
    /\ ts.pc \in {"entered", "exited"}
    /\ ts.calls < MaxSteps
    /\ \E description \in Descriptions, p \in StepProgress :
          LET w == PulseTask_step(SessionWorld, now, description, p)
          IN  SessionCommit([w EXCEPT
                  !.ts.calls = IF ts.pc = "entered" THEN @ + 1 ELSE @])

\* task.update_progress(progress) inside or after the block
SessionUpdate ==
    /\ ts.pc \in {"entered", "exited"}
    /\ \E p \in {<<1, 2>>, <<17, 10>>} :
          SessionCommit(PulseTask_update_progress(SessionWorld, now, p, None))

\* the block ends, normally or because an exception escapes it
SessionExit ==
    /\ ts.pc = "entered"
    /\ \E exc \in Failures :
          LET w == PulseTask__exit__(SessionWorld, now, exc)
          IN  SessionCommit([w EXCEPT
                  !.ts.pc = "exited",
                  !.ts.closing = TRUE,
                  !.ts.early = ts.closed,
                  !.ts.exit = IF Truthy(exc) THEN "failure" ELSE "normal"])

\* task.close() called by the program, or by atexit at interpreter exit
SessionClose ==
    /\ ts.pc \in {"made", "entered", "exited"}
    /\ SessionCommit([PulseTask_close(SessionWorld, now)
                         EXCEPT !.ts.closing = TRUE])

SessionNext ==
    \/ NewSession
    \/ SessionEnter
    \/ SessionStep
    \/ SessionUpdate
    \/ SessionExit
    \/ SessionClose
    \/ clear_stale_progress
    \/ Tick

SessionSpec == Init /\ [][SessionNext]_vars

-----------------------------------------------------------------------------
(* The store on files that are damaged from outside.  A file is "ok" (it   *)
(* holds the JSON document of its variable), "missing", "unreadable"       *)
(* (open fails with PermissionError, for reading and for writing),         *)
(* "malformed" (not JSON) or "undecodable" (not UTF-8).  A call returns    *)
(* [raised, value]: raised names the exception that reaches the caller.    *)
(* A dict is a function from its keys; {} is the function of no key.       *)

Kinds == {"ok", "missing", "unreadable", "malformed", "undecodable"}
Coordinates == {100, 250}

EmptyDict == [k \in {} |-> None]
Return(v) == [raised |-> "none", value |-> v]
Raise(exc) == [raised |-> exc, value |-> None]

\* d.get(k, default)
Get(d, k, default) == IF k \in DOMAIN d THEN d[k] ELSE default

\* json.load of the file; JSONDecodeError and IOError give {}, and the
\* UnicodeDecodeError of a file that is not UTF-8 is not caught
_read_safe(kind, content) ==
    CASE kind = "ok" -> Return(content)
      [] kind \in {"missing", "unreadable", "malformed"} -> Return(EmptyDict)
      [] kind = "undecodable" -> Raise("UnicodeDecodeError")

\* the condition of a file after _write_safe: open(filepath, 'w') creates or
\* truncates it, and the IOError of a file that cannot be opened is logged
_write_safe(kind) == IF kind = "unreadable" THEN kind ELSE "ok"

get_progress(kind, content) == _read_safe(kind, content)

get_history(kind, completed_tasks) ==
    _read_safe(kind, [completed_tasks |-> completed_tasks])

get_widget_position(kind, content) ==
    LET pos == _read_safe(kind, content)
    IN  IF pos.raised # "none"
        THEN pos
        ELSE Return([x |-> Get(pos.value, "x", 100),
                     y |-> Get(pos.value, "y", 100)])

\* the record whose started_at is current.get("started_at")
AsRecord(d) ==
    [InactiveTemplate EXCEPT !.started_at = Get(d, "started_at", None)]

\* update_progress(task_name, current_step, p) on the files f: the outcome
\* and the documents and conditions of the files after it
FaultyUpdate(f, current, t, task_name, current_step, p) ==
    LET read == _read_safe(f.progress, current)
    IN  IF read.raised # "none"
        THEN [out |-> read, files |-> f, progress |-> current]
        ELSE [out |-> Return(None),
              files |-> [f EXCEPT !.progress = _write_safe(@)],
              progress |-> IF _write_safe(f.progress) = "ok"
                           THEN update_progress_state(AsRecord(read.value),
                                    t, task_name, current_step, p, None,
                                    None, None)
                           ELSE current]

\* complete_task(task_name) on the files f
FaultyComplete(f, current, completed_tasks, t, task_name) ==
    LET current_state == _read_safe(f.progress, current)
        hist == get_history(f.history, completed_tasks)
        same == [out |-> Return(None), files |-> f, progress |-> current,
                 history |-> completed_tasks]
    IN  CASE current_state.raised # "none" ->
                 [same EXCEPT !.out = current_state]
          [] current_state.raised = "none" /\ hist.raised # "none" ->
                 [same EXCEPT !.out = hist]
          [] current_state.raised = "none" /\ hist.raised = "none"
               /\ "completed_tasks" \notin DOMAIN hist.value ->
                 [same EXCEPT !.out = Raise("KeyError")]
          [] OTHER ->
                 [out |-> Return(None),
                  files |-> [f EXCEPT !.history = _write_safe(@),
                                      !.progress = _write_safe(@)],
                  history |-> IF _write_safe(f.history) = "ok"
                              THEN complete_task_history(
                                       AsRecord(current_state.value),
                                       hist.value.completed_tasks, t,
                                       task_name)
                              ELSE completed_tasks,
                  progress |-> IF _write_safe(f.progress) = "ok"
                               THEN complete_task_state
                               ELSE current]

\* another program removes, protects or overwrites a state file
Damage ==
    /\ \E name \in FileNames, kind \in Kinds \ {"ok"} :
          files' = [files EXCEPT ![name] = kind]
    /\ UNCHANGED <<progress, history, position, ret, auxFault>>

GetProgressCall ==
    /\ ret' = [op |-> "get_progress", kind |-> files.progress]
                  @@ get_progress(files.progress, progress)
    /\ UNCHANGED <<progress, history, position, files, auxFault>>

GetHistoryCall ==
    /\ ret' = [op |-> "get_history", kind |-> files.history]
                  @@ get_history(files.history, history)
    /\ UNCHANGED <<progress, history, position, files, auxFault>>

GetWidgetPositionCall ==
    /\ ret' = [op |-> "get_widget_position", kind |-> files.position]
                  @@ get_widget_position(files.position, position)
    /\ UNCHANGED <<progress, history, position, files, auxFault>>

\* save_widget_position(x, y)
SaveWidgetPositionCall ==
    /\ \E x \in Coordinates, y \in Coordinates :
          position' = IF _write_safe(files.position) = "ok"
                      THEN [x |-> x, y |-> y]
                      ELSE position
    /\ files' = [files EXCEPT !.position = _write_safe(@)]
    /\ ret' = [op |-> "save_widget_position", kind |-> files.position]
                  @@ Return(None)
    /\ UNCHANGED <<progress, history, auxFault>>

FaultyUpdateCall ==
    /\ LET r == FaultyUpdate(files, progress, now, "T",
                             <<"Step 1/3: Testing">>, <<1, 2>>)
       IN  /\ progress' = r.progress
           /\ files' = r.files
           /\ ret' = [op |-> "update_progress", kind |-> files.progress]
                         @@ r.out
    /\ UNCHANGED <<history, position, auxFault>>

FaultyCompleteCall ==
    /\ Len(history) < MaxCompletes
    /\ LET r == FaultyComplete(files, progress, history, now, "T")
       IN  /\ progress' = r.progress
           /\ history' = r.history
           /\ files' = r.files
           /\ ret' = [op |-> "complete_task",
                      kind |-> IF files.history = "ok"
                               THEN files.progress ELSE files.history]
                         @@ r.out
    /\ UNCHANGED <<position, auxFault>>

FaultNext ==
    \/ Damage
    \/ GetProgressCall
    \/ GetHistoryCall
    \/ GetWidgetPositionCall
    \/ SaveWidgetPositionCall
    \/ FaultyUpdateCall
    \/ FaultyCompleteCall

FaultSpec == Init /\ [][FaultNext]_vars

-----------------------------------------------------------------------------
(* _write_safe as the file system sees it.  open(filepath, 'w') truncates  *)
(* progress.json, the text of the document then reaches the file in one or *)
(* more writes, and the consumer process, which shares no lock with the    *)
(* producer, reads the file between any two of these steps.  progress is   *)
(* the document of the last write that finished.                           *)

\* open(filepath, 'w') inside update_progress
WriteOpenUpdate ==
    /\ disk.pending = None
    /\ \E task_name \in Tasks, p \in {Zero, <<1, 2>>} :
          disk' = [content |-> <<>>,
                   pending |-> Some(update_progress_state(progress, now,
                                  task_name, <<"Step 1/3: Testing">>, p,
                                  None, None, None))]
    /\ UNCHANGED <<progress, now, seen, auxWrite>>

\* open(filepath, 'w') for the progress file inside complete_task
WriteOpenComplete ==
    /\ disk.pending = None
    /\ progress.active
    /\ disk' = [content |-> <<>>, pending |-> Some(complete_task_state)]
    /\ UNCHANGED <<progress, now, seen, auxWrite>>

\* some more of the text reaches the file; after the last of it the file is
\* closed
WriteFlush ==
    /\ disk.pending # None
    /\ \E k \in (Len(disk.content) + 1)..Len(FieldOrder) :
          /\ disk' = [content |-> SubSeq(Serialize(disk.pending[1]), 1, k),
                      pending |-> IF k = Len(FieldOrder)
                                  THEN None ELSE disk.pending]
          /\ progress' = IF k = Len(FieldOrder)
                         THEN disk.pending[1] ELSE progress
    /\ UNCHANGED <<now, seen, auxWrite>>

\* the consumer polls the file
ConsumerRead ==
    /\ seen.reads < MaxReads
    /\ seen' = [reads |-> seen.reads + 1, content |-> disk.content,
                old |-> progress,
                new |-> IF disk.pending = None
                        THEN progress ELSE disk.pending[1]]
    /\ UNCHANGED <<progress, now, disk, auxWrite>>

WriteNext ==
    \/ WriteOpenUpdate
    \/ WriteOpenComplete
    \/ WriteFlush
    \/ ConsumerRead

WriteSpec == Init /\ [][WriteNext]_vars

-----------------------------------------------------------------------------
(* update_progress called from several threads.  The lock is taken by      *)
(* _read_safe inside _get_started_at and, again, by _write_safe; between   *)
(* the two the thread holds no lock.  complete_task holds the lock from    *)
(* its first read to its last write.                                       *)

\* now = datetime.now(...); self._get_started_at()
UpdateRead(th) ==
    /\ upd[th].pc = "idle"
    /\ \E task_name \in Tasks :
          upd' = [upd EXCEPT ![th] =
                     [@ EXCEPT !.pc = "read", !.task_name = task_name,
                               !.t = now,
                               !.started = _get_started_at(progress)]]
    /\ UNCHANGED <<progress, auxUpdate>>

\* self._write_safe(PROGRESS_FILE, state)
UpdateWrite(th) ==
    /\ upd[th].pc = "read"
    /\ progress' = update_progress_state(
                       [InactiveTemplate EXCEPT
                            !.started_at = upd[th].started],
                       upd[th].t, upd[th].task_name, <<"Step 1/3: Testing">>,
                       <<1, 2>>, None, None, None)
    /\ upd' = [upd EXCEPT ![th] = IdleCall]
    /\ UNCHANGED auxUpdate

ThreadReads == \E th \in Threads : UpdateRead(th)

ThreadWrites == \E th \in Threads : UpdateWrite(th)

ConcNext ==
    \/ ThreadReads
    \/ ThreadWrites
    \/ CompleteTaskCall
    \/ Tick

ConcSpec == Init /\ [][ConcNext]_vars

-----------------------------------------------------------------------------
(* The lock.  complete_task holds self._lock from its first read to its    *)
(* last write; _read_safe and _write_safe take it for one read or one      *)
(* write, so every other read and write waits while a thread is inside     *)
(* complete_task.  The reaper, like update_progress, takes the lock once   *)
(* for its read and once for its write.                                    *)

\* no lock at all
LockFree_NoLock == TRUE

\* with self._lock: no other thread holds the lock
LockFree == cmp.pc = "idle"

\* what the threads of LockSpec leave alone
auxLock ==
    <<tr, out, log, ts, position, files, ret, disk, seen, thr, alive, ini>>

\* update_progress in another thread
GuardedUpdateRead == LockFree /\ UpdateRead(1)

GuardedUpdateWrite == LockFree /\ UpdateWrite(1)

\* with self._lock: current_state = ...; history = ...
CompleteBegin ==
    /\ LockFree
    /\ Len(history) < MaxCompletes
    /\ \E task_name \in Tasks :
          cmp' = [cmp EXCEPT !.pc = "locked", !.task_name = task_name,
                             !.current = progress]
    /\ UNCHANGED <<progress, history, now, upd, reap, obs, auxLock>>

\* self._write_safe(HISTORY_FILE, history)
CompleteWriteHistory ==
    /\ cmp.pc = "locked"
    /\ history' = complete_task_history(cmp.current, history, now,
                                        cmp.task_name)
    /\ cmp' = [cmp EXCEPT !.pc = "history_written"]
    /\ UNCHANGED <<progress, now, upd, reap, obs, auxLock>>

\* self._write_safe(PROGRESS_FILE, {...}) and the end of the with block
CompleteWriteProgress ==
    /\ cmp.pc = "history_written"
    /\ progress' = complete_task_state
    /\ cmp' = [IdleComplete EXCEPT
                  !.dirty = cmp.dirty \/ progress # cmp.current]
    /\ UNCHANGED <<history, now, upd, reap, obs, auxLock>>

\* state = pulse_state.get_progress() and the idle test of the reaper
ReaperRead ==
    /\ LockFree
    /\ reap.pc = "idle"
    /\ reap' = IF Stale(progress, now)
               THEN [reap EXCEPT !.pc = "stale",
                                 !.record = Reaped(progress, now)]
               ELSE reap
    /\ UNCHANGED <<progress, history, now, upd, cmp, obs, auxLock>>

\* pulse_state._write_safe(PROGRESS_FILE, {...}) of the reaper
ReaperWrite ==
    /\ LockFree
    /\ reap.pc = "stale"
    /\ progress' = reap.record
    /\ reap' = [IdleReaper EXCEPT
                   !.wrong = reap.wrong \/ ~Stale(progress, now)]
    /\ UNCHANGED <<history, now, upd, cmp, obs, auxLock>>

\* a thread of the producer process calls get_progress or get_history
ObserverRead ==
    /\ LockFree
    /\ obs' = [read |-> TRUE, mid |-> cmp.pc = "history_written"]
    /\ UNCHANGED <<progress, history, now, upd, cmp, reap, auxLock>>

LockNext ==
    \/ GuardedUpdateRead
    \/ GuardedUpdateWrite
    \/ CompleteBegin
    \/ CompleteWriteHistory
    \/ CompleteWriteProgress
    \/ ReaperRead
    \/ ReaperWrite
    \/ ObserverRead
    \/ Tick

LockSpec == Init /\ [][LockNext]_vars

-----------------------------------------------------------------------------
(* update(n) called from several threads on one tracker.  self.n += n is a *)
(* load of self.n, an addition and a store, with no lock, and a thread     *)
(* switch can fall between the load and the store.                         *)

\* the producer constructs the tracker its threads share
SharedTracker ==
    /\ tr.pc = "unborn"
    /\ \E initial \in InitialInputs, mininterval \in MinIntervals :
          /\ Commit(PulseProgress(None, Some(MaxLen), FALSE, initial,
                                  mininterval, now))
          /\ thr' = [th \in Threads |->
                        [IdleUpdate EXCEPT !.initial = initial]]
    /\ UNCHANGED auxCounter

\* update(k) up to the load of self.n
CounterLoad(th) ==
    /\ tr.pc # "unborn"
    /\ ~tr.disable
    /\ thr[th].pc = "idle"
    /\ thr[th].calls < MaxUpdates
    /\ \E k \in Increments :
          thr' = [thr EXCEPT ![th] =
                     [@ EXCEPT !.pc = "loaded", !.k = k, !.loaded = tr.n,
                               !.calls = @ + 1]]
    /\ UNCHANGED <<progress, history, tr, auxCounter>>

\* the store of self.n
CounterStore(th) ==
    /\ thr[th].pc = "loaded"
    /\ tr' = [tr EXCEPT !.n = thr[th].loaded + thr[th].k, !.last = "update"]
    /\ thr' = [thr EXCEPT ![th] = [@ EXCEPT !.pc = "stored"]]
    /\ UNCHANGED <<progress, history, auxCounter>>

\* now = time.time() and the rest of update
CounterReport(th) ==
    /\ thr[th].pc = "stored"
    /\ IF now - tr.last_update_t >= tr.mininterval
       THEN Commit([_report_progress(World, now)
                       EXCEPT !.tr.last_update_t = now])
       ELSE UNCHANGED <<progress, history, tr>>
    /\ thr' = [thr EXCEPT ![th] =
                  [@ EXCEPT !.pc = "idle", !.added = @ + thr[th].k]]
    /\ UNCHANGED auxCounter

ThreadLoads == \E th \in Threads : CounterLoad(th)

ThreadStores == \E th \in Threads : CounterStore(th)

ThreadReports == \E th \in Threads : CounterReport(th)

CounterNext ==
    \/ SharedTracker
    \/ ThreadLoads
    \/ ThreadStores
    \/ ThreadReports
    \/ Tick

CounterSpec == Init /\ [][CounterNext]_vars

-----------------------------------------------------------------------------
(* A producer that runs distinct tasks one after the other: the k-th task  *)
(* is named <<"Task", k>>, may publish progress and is then completed.     *)

NameOf(k) == <<"Task", k>>

\* the next task publishes a first record
TaskStarts ==
    /\ Len(log) < MaxLogged
    /\ ~progress.active
    /\ progress' = update_progress_state(progress, now, NameOf(Len(log) + 1),
                                         <<"Step 1/3: Testing">>, Zero, None,
                                         None, None)
    /\ UNCHANGED <<history, now, tr, out, log, auxHistory>>

\* complete_task for the next task, whether or not it published a record
TaskCompletes ==
    /\ Len(log) < MaxLogged
    /\ history' = complete_task_history(progress, history, now,
                                        NameOf(Len(log) + 1))
    /\ progress' = complete_task_state
    /\ log' = Append(log, NameOf(Len(log) + 1))
    /\ UNCHANGED <<now, tr, out, auxHistory>>

HistoryNext ==
    \/ TaskStarts
    \/ TaskCompletes

HistorySpec == Init /\ [][HistoryNext]_vars

-----------------------------------------------------------------------------
(* Claims about the store *)

ActiveFor(current, t) == current.active /\ current.task_name = Some(t)

InUnit(p) == ~Less(p, Zero) /\ ~Less(One, p)

\* the record an update_progress call made at time t would leave
Updated(current, t, task, p, o) ==
    update_progress_state(current, t, task, <<"Step 1/3: Testing">>, p,
                          o.eta_seconds, o.error, o.pid)

\* C1: in every reachable state the persisted progress lies in [0, 1], and
\* an update_progress called there stores 0 for an input below 0, 1 for an
\* input above 1 and the input itself otherwise.
C1_ProgressClamped ==
    /\ InUnit(progress.progress)
    /\ \A task \in Tasks, p \in ProgressInputs, o \in Optionals :
          LET stored == Updated(progress, now, task, p, o).progress
          IN  /\ Less(p, Zero) => stored = Zero
              /\ Less(One, p) => stored = One
              /\ InUnit(p) => stored = p

\* a record that held the clamped maximum was active and has been reaped
C1_Witness ==
    /\ ~progress.active
    /\ Truthy(progress.task_name)
    /\ progress.progress = One

\* C8: a record that is active for a task is what the last update_progress
\* for that task left; the next update_progress for the same task, with no
\* complete_task or reaper write between, keeps its started_at and carries
\* the time of the call as last_update, as the record itself does its own.
C8_StartedAtStable ==
    \A task \in Tasks, p \in ProgressInputs, o \in Optionals :
        ActiveFor(progress, task) =>
            LET second == Updated(progress, now, task, p, o)
            IN  /\ Truthy(progress.started_at)
                /\ second.started_at = progress.started_at
                /\ second.last_update = Some(now)
                /\ progress.last_update[1] <= now

\* an active record updated later than it was started
C8_Witness ==
    /\ progress.active
    /\ Truthy(progress.started_at)
    /\ Truthy(progress.last_update)
    /\ progress.started_at[1] < progress.last_update[1]

\* C9: update_progress(T) stamps started_at with the time of the call
\* whenever no record is active for T (inactive record, or active for a
\* different task), and inherits it only from an active record of T.
C9_StartedAtPerTask ==
    \A task \in Tasks, p \in ProgressInputs, o \in Optionals :
        Updated(progress, now, task, p, o).started_at =
            IF ActiveFor(progress, task) THEN progress.started_at
            ELSE Some(now)

\* C10: complete_task(T) called on the record an update_progress(T) left
\* writes the inactive template and adds exactly one history entry, at
\* index 0, named T.
C10_CompleteClears ==
    \A task \in Tasks :
        ActiveFor(progress, task) =>
            LET completed ==
                    complete_task_history(progress, history, now, task)
                cleared == complete_task_state
            IN  /\ ~cleared.active
                /\ cleared.task_name = None
                /\ cleared.current_step = None
                /\ cleared.progress = Zero
                /\ cleared.eta_seconds = None
                /\ cleared.started_at = None
                /\ cleared.last_update = None
                /\ cleared.error = None
                /\ cleared.pid = None
                /\ Len(completed) =
                       IF Len(history) < HistoryCap THEN Len(history) + 1
                       ELSE HistoryCap
                /\ completed[1].task_name = task
                /\ \A i \in 2..Len(completed) : completed[i] = history[i - 1]

\* a task that ran for a while has been completed and archived behind an
\* earlier one
C10_Witness ==
    /\ progress = complete_task_state
    /\ Len(history) > 1
    /\ history[1].task_name = "T"
    /\ history[1].duration_seconds = Some(1)

-----------------------------------------------------------------------------
(* Claims about the tracker, under TrackerSpec *)

Wraps(t) == t.pc # "unborn" /\ Truthy(t.iterable)

\* C2: once close() of a non-disabled tracker has run, complete_task has
\* been called and the record is not active for the tracker's task, however
\* many advances were made before, zero included.
C2_CloseCompletes ==
    (~tr.disable /\ tr.last = "close") =>
        /\ tr.completes > 0
        /\ ~ActiveFor(progress, tr.desc)

\* C3: a tracker that wraps a sequence of N items, iterated to exhaustion,
\* has yielded exactly the N items of the sequence, in order.
C3_YieldsAll ==
    (Wraps(tr) /\ tr.pc = "exhausted") => out = tr.iterable[1]

\* C4: a tracker with disable = true that wraps a sequence of N items,
\* iterated to exhaustion, has yielded every one of the N items, unchanged
\* and in order.
C4_DisabledYieldsAll ==
    (Wraps(tr) /\ tr.disable /\ tr.pc = "exhausted") =>
        /\ Len(out) = Len(tr.iterable[1])
        /\ \A i \in 1..Len(out) : out[i] = tr.iterable[1][i]

\* C5: when a non-disabled tracker over a sequence of any length has been
\* iterated to exhaustion (and close() has run only from that iteration),
\* complete_task has been called exactly once and the history holds exactly
\* one entry.
C5_ExhaustionCompletesOnce ==
    (Wraps(tr) /\ ~tr.disable /\ tr.pc = "exhausted" /\ tr.closes = 1) =>
        /\ tr.completes = 1
        /\ Len(history) = 1

\* C6: however many times close() is invoked on a tracker, complete_task
\* is called at most once and at most one history entry is added.
C6_CloseIdempotent ==
    /\ tr.completes <= 1
    /\ Len(history) <= 1

\* the documents of a world are the documents of the current state
SameDocuments(w) == w.progress = progress /\ w.history = history

\* C7: a disabled tracker writes nothing.  While the tracker of the run is
\* disabled the progress and history documents are what they were before
\* it was constructed; and whatever the documents hold, a tracker made like
\* the one of the run but with disable = true, or the tracker of the run
\* with its disable flag set, leaves them as they are when it is
\* constructed, updated, iterated or closed.
C7_DisabledWritesNothing ==
    /\ (tr.pc # "unborn" /\ tr.disable) =>
           /\ progress = InactiveTemplate
           /\ history = <<>>
    /\ LET made == PulseProgress(tr.iterable, tr.total, TRUE, tr.n,
                                 tr.mininterval, now)
           disabled == [World EXCEPT !.tr.disable = TRUE]
       IN  /\ SameDocuments(made)
           /\ SameDocuments(__iter__(made, now, <<>>).w)
           /\ \A k \in Increments : SameDocuments(update(disabled, now, k))
           /\ tr.pc \in {"ready", "suspended"} =>
                  SameDocuments(__iter__(disabled, now, out).w)
           /\ SameDocuments(close(disabled, now))

\* a disabled tracker with a count, wrapping a sequence, after its
\* iteration, an update and a close()
C7_Witness ==
    /\ tr.disable
    /\ tr.n > 0
    /\ Wraps(tr)
    /\ Len(tr.iterable[1]) > 0
    /\ tr.pc = "exhausted"
    /\ tr.updates > 0
    /\ tr.last = "close"

\* C14: an error that is set in the progress record is never overwritten by
\* a nil error: the record update_progress writes for a call that passes no
\* error still carries the error the document held.
C14_ErrorNotOverwritten ==
    \A task \in Tasks, p \in ProgressInputs, o \in Optionals :
        (Truthy(progress.error) /\ ~Truthy(o.error))
            => Truthy(Updated(progress, now, task, p, o).error)

\* C20: a reaper tick on an active record idle for longer than the threshold
\* writes active = false and null eta_seconds, started_at and last_update
\* and keeps task_name, current_step, progress and error; a second tick, at
\* the same or any later time, changes nothing more, and a tick on an
\* inactive record or on one updated within the threshold changes nothing.
C20_ReaperIdempotent ==
    LET r == Reaped(progress, now)
    IN  /\ Stale(progress, now)
              => /\ ~r.active
                 /\ r.eta_seconds = None
                 /\ r.started_at = None
                 /\ r.last_update = None
                 /\ r.task_name = progress.task_name
                 /\ r.current_step = progress.current_step
                 /\ r.progress = progress.progress
                 /\ r.error = progress.error
                 /\ \A t \in now..(MaxTime + 1) : Reaped(r, t) = r
        /\ ~Stale(progress, now) => r = progress
        /\ ~progress.active
              => \A t \in now..(MaxTime + 1) : Reaped(progress, t) = progress

\* the reaper has deactivated a record that carried an error
C20_Witness ==
    /\ ~progress.active
    /\ progress.task_name = Some("T")
    /\ Truthy(progress.error)
    /\ Truthy(progress.current_step)
    /\ progress.last_update = None
    /\ Reaped(progress, now) = progress

-----------------------------------------------------------------------------
(* Claims about the history, under HistorySpec *)

\* C11: after any sequence of complete_task calls the history holds at most
\* 10 entries, and they are the most recently completed tasks, newest first:
\* the entry at index i (from 1) is the i-th last task completed.
C11_HistoryBounded ==
    /\ Len(history) <= 10
    /\ Len(history) = IF Len(log) < 10 THEN Len(log) ELSE 10
    /\ \A i \in 1..Len(history) :
          history[i].task_name = log[Len(log) + 1 - i]

\* 12 distinct tasks have been completed: the 12th is at index 0 and the
\* third is the oldest kept
C11_Witness ==
    /\ Len(log) = 12
    /\ Len(history) = 10
    /\ history[1].task_name = NameOf(12)
    /\ history[10].task_name = NameOf(3)

-----------------------------------------------------------------------------
(* Claims about the session, under SessionSpec *)

\* C12: once a session with total_steps n > 0 has left its with block
\* through an escaping exception, the progress document holds a non-null
\* error, the exception's kind and message, and progress k/n clamped to
\* [0,1], where k is the session's step counter, which is the number of
\* step() calls made in the block unless close() was called inside it.
C12_FailureRecorded ==
    (ts.exit = "failure" /\ ts.total_steps > 0)
        => /\ Truthy(progress.error)
           /\ progress.error = Some("ValueError: Test error")
           /\ progress.progress
                  = Clamp(Frac(ts.current_step, ts.total_steps))
           /\ InUnit(progress.progress)
           /\ (~ts.early => ts.calls = ts.current_step)

\* the exception escaped after step 1 of 2: error set, progress 1/2
C12_Witness ==
    /\ ts.exit = "failure"
    /\ ts.total_steps = 2
    /\ ts.calls = 1
    /\ ts.current_step = 1
    /\ Truthy(progress.error)
    /\ progress.progress = <<1, 2>>

\* C13: once a session has left its with block through an escaping
\* exception, the progress document is inactive, as the normal close path
\* leaves it, and its error is non-empty.
C13_FailureLeavesInactive ==
    ts.exit = "failure" => (~progress.active /\ Truthy(progress.error))

-----------------------------------------------------------------------------
(* Claims about the store on damaged files, under FaultSpec *)

ProgressFields ==
    {"active", "task_name", "current_step", "progress", "eta_seconds",
     "started_at", "last_update", "error", "pid"}

\* C15: a reader called on a file that is missing, unreadable or malformed
\* returns a value that has all its fields: get_progress the inactive
\* default record, get_history an empty completed_tasks list,
\* get_widget_position a position with x and y.
C15_ReadersReturnDefaults ==
    ret.kind \in {"missing", "unreadable", "malformed"}
        => /\ ret.op = "get_progress"
                 => /\ ret.raised = "none"
                    /\ DOMAIN ret.value = ProgressFields
                    /\ ret.value = InactiveTemplate
           /\ ret.op = "get_history"
                 => /\ ret.raised = "none"
                    /\ DOMAIN ret.value = {"completed_tasks"}
                    /\ ret.value.completed_tasks = <<>>
           /\ ret.op = "get_widget_position"
                 => /\ ret.raised = "none"
                    /\ DOMAIN ret.value = {"x", "y"}

\* C16: no store call raises to its caller, whatever the condition of the
\* files, and after a complete_task the progress file holds an inactive
\* record.
C16_NoStorageErrorRaised ==
    /\ ret.raised = "none"
    /\ ret.op = "complete_task"
          => /\ files.progress = "ok"
             /\ ~progress.active

-----------------------------------------------------------------------------
(* Claims about the file as another process reads it, under WriteSpec *)

\* C17: what the consumer reads from progress.json is a complete document,
\* the one before the write in progress or the one being written; it is
\* never empty or cut short.
C17_ReaderSeesWholeDocument ==
    /\ Parse(seen.content) # None
    /\ seen.content \in {Serialize(seen.old), Serialize(seen.new)}

-----------------------------------------------------------------------------
(* Claims about threads, under ConcSpec and CounterSpec *)

\* C18: update_progress reads the record and writes the new one in one
\* critical section, so no complete_task takes effect between the two: a
\* record written after a complete_task does not carry the started_at of
\* the completed task, that is, an active record never has the started_at,
\* older than the last completion, of the task that completion closed.
C18_UpdateIsOneCriticalSection ==
    (/\ progress.active
     /\ Len(history) > 0
     /\ Truthy(history[1].duration_seconds)
     /\ progress.started_at[1] < history[1].completed_at)
        => progress.started_at[1]
               # history[1].completed_at - history[1].duration_seconds[1]

RECURSIVE SumAdded(_)
SumAdded(S) ==
    IF S = {} THEN 0
    ELSE LET th == CHOOSE x \in S : TRUE
         IN  thr[th].added + SumAdded(S \ {th})

\* C19: when no thread is inside update(n), the counter of the tracker is
\* its initial value plus the sum of the increments of all update calls
\* made, and the persisted progress is within [0,1].
C19_NoIncrementLost ==
    /\ InUnit(progress.progress)
    /\ (tr.pc # "unborn" /\ \A th \in Threads : thr[th].pc = "idle")
          => \A th \in Threads :
                 tr.n = thr[th].initial + SumAdded(Threads)

-----------------------------------------------------------------------------
(* Construction of the store by two processes on one data directory:       *)
(* _ensure_files_exist tests each file with exists() and writes its        *)
(* template with open(filepath, 'w') when the test fails.  The lock is     *)
(* per process, so the steps of two processes interleave.                  *)

\* the order in which _ensure_files_exist visits the files
FileOrder == <<"progress", "history", "position">>

\* the process moves on to the next file, or __init__ returns
NextFile(c) ==
    IF c.file < Len(FileOrder)
    THEN [c EXCEPT !.pc = "check", !.file = @ + 1]
    ELSE [c EXCEPT !.pc = "done", !.file = 1]

\* the document in the file name differs from its template
Customized(name) ==
    CASE name = "progress" -> progress # InactiveTemplate
      [] name = "history" -> history # <<>>
      [] name = "position" -> position # [x |-> 100, y |-> 100]

\* the program runs for the first time: the data directory is empty
FreshDirectory ==
    /\ ~ini.fresh
    /\ \A p \in Processes : ini.proc[p].pc = "done"
    /\ files' = [name \in FileNames |-> "missing"]
    /\ ini' = [ini EXCEPT !.fresh = TRUE]
    /\ UNCHANGED <<progress, history, now, tr, out, log, ts, position, ret,
                   disk, seen, upd, thr, cmp, reap, obs, alive>>

\* pulse_state = PulseState() in process p
Construct(p) ==
    /\ ini.proc[p].pc = "done"
    /\ ini.proc[p].runs < MaxInits
    /\ ini' = [ini EXCEPT !.proc[p] =
                  [pc |-> "check", file |-> 1, runs |-> @.runs + 1]]
    /\ UNCHANGED <<progress, history, now, tr, out, log, ts, position, files,
                   ret, disk, seen, upd, thr, cmp, reap, obs, alive>>

\* if not X.exists():
EnsureCheck(p) ==
    /\ ini.proc[p].pc = "check"
    /\ ini' = [ini EXCEPT !.proc[p] =
                  IF files[FileOrder[@.file]] = "missing"
                  THEN [@ EXCEPT !.pc = "write"]
                  ELSE NextFile(@)]
    /\ UNCHANGED <<progress, history, now, tr, out, log, ts, position, files,
                   ret, disk, seen, upd, thr, cmp, reap, obs, alive>>

\* self._write_safe(X, template)
EnsureWrite(p) ==
    /\ ini.proc[p].pc = "write"
    /\ LET name == FileOrder[ini.proc[p].file]
       IN  /\ progress' = IF name = "progress" THEN InactiveTemplate
                          ELSE progress
           /\ history' = IF name = "history" THEN <<>> ELSE history
           /\ position' = IF name = "position" THEN [x |-> 100, y |-> 100]
                          ELSE position
           /\ files' = [files EXCEPT ![name] = _write_safe(@)]
           /\ ini' = [ini EXCEPT
                         !.proc[p] = NextFile(@),
                         !.clobbered = @ \/ (files[name] = "ok"
                                               /\ Customized(name))]
    /\ UNCHANGED <<now, tr, out, log, ts, ret, disk, seen, upd, thr, cmp,
                   reap, obs, alive>>

\* a process that has constructed its store reports progress, completes a
\* task or saves the position of the widget
StoreCall ==
    /\ \E p \in Processes : ini.proc[p].pc = "done" /\ ini.proc[p].runs > 0
    /\ \A name \in FileNames : files[name] = "ok"
    /\ \/ update_progress("T", <<"Step 1/3: Testing">>, <<1, 2>>, None, None,
                          None)
       \/ complete_task("T")
       \/ SaveWidgetPositionCall

Constructs == \E p \in Processes : Construct(p)

EnsureChecks == \E p \in Processes : EnsureCheck(p)

EnsureWrites == \E p \in Processes : EnsureWrite(p)

InitNext ==
    \/ FreshDirectory
    \/ Constructs
    \/ EnsureChecks
    \/ EnsureWrites
    \/ StoreCall

InitSpec == Init /\ [][InitNext]_vars

-----------------------------------------------------------------------------
(* Claims about the lock, under LockSpec *)

\* C21: the reaper writes its inactive record only over a record that is
\* active and idle beyond the threshold at the time of the write: a record
\* that update_progress or complete_task wrote after the reaper's read is
\* not overwritten, so a record updated within the threshold is never
\* marked inactive.
C21_ReaperOnlyOverIdle == ~reap.wrong

\* C25: no thread of the producer process reads a state file between the
\* history write and the progress reset of a complete_task, and the
\* progress record complete_task resets is the one it read: no
\* update_progress or reaper write landed in between.
C25_CompleteAtomic ==
    /\ ~obs.mid
    /\ ~cmp.dirty
    /\ cmp.pc = "history_written"
          => /\ Len(history) > 0
             /\ history[1].task_name = cmp.task_name
             /\ progress = cmp.current

\* a complete_task of an active record is between its two writes while
\* another thread is inside update_progress and the reaper has read
C25_Witness ==
    /\ cmp.pc = "history_written"
    /\ cmp.current.active
    /\ upd[1].pc = "read"
    /\ obs.read

-----------------------------------------------------------------------------
(* A producer that stops calling the store while the reaper keeps running. *)
(* _cleanup_worker loops for ever (while True: sleep(60); clear_stale_     *)
(* progress()) and clear_stale_progress catches every exception, so the    *)
(* reaper is weakly fair; so is the clock, which runs on until the active  *)
(* record is idle beyond the threshold.                                    *)

LiveUpdate ==
    /\ alive
    /\ now <= MaxTime
    /\ \E task_name \in Tasks,
          error \in {None, Some("ValueError: Test error")} :
          update_progress(task_name, <<"Step 1/3: Testing">>, <<1, 2>>,
                          None, error, None)

LiveComplete == alive /\ CompleteTaskCall

\* the producer crashes or abandons its task
ProducerStops ==
    /\ alive
    /\ alive' = FALSE
    /\ UNCHANGED <<progress, history, now, tr, out, log, ts, position, files,
                   ret, disk, seen, upd, thr, cmp, reap, obs, ini>>

\* a producer runs again
ProducerStarts ==
    /\ ~alive
    /\ alive' = TRUE
    /\ UNCHANGED <<progress, history, now, tr, out, log, ts, position, files,
                   ret, disk, seen, upd, thr, cmp, reap, obs, ini>>

LiveTick ==
    /\ \/ now < MaxTime
       \/ /\ progress.active
          /\ Truthy(progress.last_update)
          /\ ~Stale(progress, now)
    /\ now' = now + 1
    /\ UNCHANGED <<progress, history, tr, out, aux>>

LiveNext ==
    \/ LiveUpdate
    \/ LiveComplete
    \/ ProducerStops
    \/ ProducerStarts
    \/ clear_stale_progress
    \/ LiveTick

LiveSpec ==
    /\ Init
    /\ [][LiveNext]_vars
    /\ WF_vars(clear_stale_progress)
    /\ WF_vars(LiveTick)

\* C22: an active record whose producer has stopped calling the store
\* eventually becomes inactive (or the producer calls again), and an
\* inactive record becomes active only by an update_progress of a running
\* producer, which stamps it with the time of the call.
C22_AbandonedRecordCleared ==
    /\ (progress.active /\ ~alive) ~> (~progress.active \/ alive)
    /\ [][(~progress.active /\ progress'.active)
             => (alive /\ progress'.last_update = Some(now))]_vars

\* the reaper has deactivated the record of a producer that stopped
C22_Witness ==
    /\ ~alive
    /\ ~progress.active
    /\ Truthy(progress.task_name)
    /\ progress.last_update = None
    /\ now > MaxIdleSeconds

-----------------------------------------------------------------------------
(* Claims about close() of a session, under SessionSpec *)

\* C23: once close() was invoked on a session, directly or by the end of
\* its with block, the session is marked closed and complete_task was
\* called exactly once: the history holds one entry, that of the session.
C23_CloseEffectiveOnce ==
    ts.closing =>
        /\ ts.closed
        /\ Len(history) = 1
        /\ history[1].task_name = ts.task_name

-----------------------------------------------------------------------------
(* Claims about construction, under InitSpec *)

\* C24: _ensure_files_exist never writes a template over a file that exists
\* with a document that differs from the template, in whichever process
\* and however often it runs.
C24_FirstWriterWins == ~ini.clobbered

-----------------------------------------------------------------------------
(* A producer that calls update_progress and reads the record back.        *)

RoundTripNext ==
    \/ UpdateProgressCall
    \/ GetProgressCall
    \/ Tick

RoundTripSpec == Init /\ [][RoundTripNext]_vars

(* Claims about the round trip through progress.json, under RoundTripSpec  *)

\* what get_progress returns right after update_progress(task_name,
\* current_step, p, eta_seconds, error, pid) called now on the current file
ReadBack(task_name, current_step, p, o) ==
    get_progress("ok",
        Parse(Serialize(update_progress_state(progress, now, task_name,
            current_step, p, o.eta_seconds, o.error, o.pid)))[1])

\* C26: get_progress right after update_progress returns active = true and
\* the task_name, current_step and eta_seconds that were supplied, and the
\* supplied progress when it lies within [0, 1].
C26_UpdateThenGet ==
    \A task_name \in Tasks, current_step \in Steps, p \in ProgressInputs,
       o \in Optionals :
        LET got == ReadBack(task_name, current_step, p, o)
        IN  /\ got.raised = "none"
            /\ got.value.active
            /\ got.value.task_name = Some(task_name)
            /\ got.value.current_step = Some(current_step)
            /\ got.value.eta_seconds = o.eta_seconds
            /\ InUnit(p) => got.value.progress = p

\* get_progress has returned the record of an update_progress that supplied
\* an ETA and a progress within [0, 1]
C26_Witness ==
    /\ progress.active
    /\ progress.eta_seconds = Some(120)
    /\ progress.progress = <<1, 2>>
    /\ progress.last_update = Some(now)
    /\ ret.op = "get_progress"
    /\ ret.raised = "none"
    /\ ret.value = progress
    /\ get_progress("ok", Parse(Serialize(progress))[1]) = Return(progress)

-----------------------------------------------------------------------------
(* Claims about the snapshots of a tracker, under TrackerSpec *)

\* C27: the eta_seconds a tracker persists is null or a non-negative
\* integer, also when update(n) has pushed the counter above total.
C27_EtaNotNegative ==
    Truthy(progress.eta_seconds) => progress.eta_seconds[1] >= 0

\* C28: while the consumer of a non-disabled tracker holds the k-th element
\* of the wrapped sequence the counter is initial + k - 1, one update(1)
\* follows each element before the next is pulled, and after the N elements
\* are exhausted the counter is initial + N; the elements come out one per
\* pull, in the order of the source.
C28_OneUpdatePerElement ==
    (Wraps(tr) /\ ~tr.disable /\ tr.updates = 0) =>
        LET items == tr.iterable[1]
            k == Len(out)
        IN  /\ k <= Len(items)
            /\ out = SubSeq(items, 1, k)
            /\ tr.pc = "ready" => k = 0 /\ tr.n = tr.initial
            /\ tr.pc \in {"suspended", "abandoned"} =>
                   k >= 1 /\ tr.n = tr.initial + k - 1
            /\ tr.pc = "exhausted" =>
                   k = Len(items) /\ tr.n = tr.initial + Len(items)
            /\ tr.pc = "suspended" =>
                   LET r == __iter__(World, now, out)
                   IN  /\ r.w.tr.n = tr.n + 1
                       /\ r.item = IF k < Len(items) THEN Some(items[k + 1])
                                   ELSE None

\* a tracker made with initial = 1 has handed out the two elements of its
\* sequence and has been exhausted
C28_Witness ==
    /\ Wraps(tr)
    /\ ~tr.disable
    /\ tr.updates = 0
    /\ tr.initial = 1
    /\ tr.pc = "exhausted"
    /\ Len(out) >= 2
    /\ tr.n = tr.initial + Len(out)

\* the minimum interval has passed since the last snapshot of update, or
\* since construction
IntervalReached == now - tr.last_update_t >= tr.mininterval

\* C29 as stated: update(n) always adds n to the counter, writes a snapshot
\* only when the minimum interval is reached, and the snapshot carries
\* progress = counter / total when total is known, and progress 0 with no
\* ETA when it is not.
C29_UpdateAlwaysAdds ==
    tr.pc # "unborn" =>
        \A k \in Increments :
            LET u == update(World, now, k)
            IN  /\ u.tr.n = tr.n + k
                /\ u.progress # progress => IntervalReached
                /\ (IntervalReached /\ ~tr.disable) =>
                       /\ u.tr.last_update_t = now
                       /\ u.progress.last_update = Some(now)
                       /\ u.progress.progress
                              = IF HasTotal(tr)
                                THEN Frac(u.tr.n, tr.total[1]) ELSE Zero
                       /\ ~HasTotal(tr) => u.progress.eta_seconds = None

\* C29, amended: update(n) of a tracker that is not disabled adds n to the
\* counter and update(n) of a disabled tracker changes nothing; a snapshot
\* is written only when the minimum interval is reached, and then the next
\* one is timed from it; the snapshot carries progress = counter / total
\* clamped to [0, 1] when total is known, and progress 0 with no ETA when it
\* is not.
C29_UpdateAddsUnlessDisabled ==
    tr.pc # "unborn" =>
        \A k \in Increments :
            LET u == update(World, now, k)
            IN  /\ tr.disable => u = World
                /\ ~tr.disable => u.tr.n = tr.n + k
                /\ u.progress # progress => IntervalReached
                /\ ~IntervalReached =>
                       u.tr.last_update_t = tr.last_update_t
                /\ (IntervalReached /\ ~tr.disable) =>
                       /\ u.tr.last_update_t = now
                       /\ u.progress.last_update = Some(now)
                       /\ u.progress.progress
                              = IF HasTotal(tr)
                                THEN Clamp(Frac(u.tr.n, tr.total[1]))
                                ELSE Zero
                       /\ ~HasTotal(tr) => u.progress.eta_seconds = None

\* an update(n) has pushed the counter of a tracker above its total and has
\* written a snapshot, and the next update comes before the interval ends
C29_Witness ==
    /\ tr.pc # "unborn"
    /\ ~tr.disable
    /\ HasTotal(tr)
    /\ tr.last = "update"
    /\ tr.updates > 0
    /\ tr.n > tr.total[1]
    /\ progress.last_update = Some(tr.last_update_t)
    /\ progress.progress = One
    /\ tr.mininterval > 0
    /\ ~IntervalReached

\* C30: the progress a tracker with a known total persists for its task
\* never decreases: the persisted value is at most counter / total clamped,
\* and an update(n) with n >= 0, the next step of the iteration and a tick
\* of the reaper leave a value at least as large in the record of the task.
C30_ProgressNonDecreasing ==
    (/\ tr.pc # "unborn"
     /\ ~tr.disable
     /\ HasTotal(tr)
     /\ progress.task_name = Some(tr.desc)) =>
        /\ ~Less(Clamp(Frac(tr.n, tr.total[1])), progress.progress)
        /\ \A k \in Increments \cup {0} :
               ~Less(update(World, now, k).progress.progress,
                     progress.progress)
        /\ tr.pc \in {"ready", "suspended"} =>
               LET w == __iter__(World, now, out).w
               IN  w.progress.task_name = Some(tr.desc) =>
                       ~Less(w.progress.progress, progress.progress)
        /\ Reaped(progress, now).progress = progress.progress

\* the record of the task carries 1/2 after an update of a tracker with
\* total 2
C30_Witness ==
    /\ tr.pc # "unborn"
    /\ ~tr.disable
    /\ tr.total = Some(2)
    /\ tr.last = "update"
    /\ progress.task_name = Some(tr.desc)
    /\ progress.active
    /\ progress.progress = <<1, 2>>

-----------------------------------------------------------------------------
(* Claims about the with block of a session, under SessionSpec *)

\* C31: __enter__ publishes an active record of the session's task with
\* progress 0 and the label "Starting...", and every exit of the block,
\* normal or by failure, leaves the session closed with exactly one
\* complete_task made for it, whether or not close() was called before.
C31_ScopedSession ==
    /\ ts.pc = "made" =>
           LET w == PulseTask__enter__(SessionWorld, now)
           IN  /\ w.progress.active
               /\ w.progress.task_name = Some(ts.task_name)
               /\ w.progress.progress = Zero
               /\ w.progress.current_step = Some(<<"Starting...">>)
               /\ w.history = history
    /\ ts.pc = "entered" =>
           \A exc \in Failures :
               LET w == PulseTask__exit__(SessionWorld, now, exc)
               IN  /\ w.ts.closed
                   /\ Len(w.history) = 1
    /\ ts.pc = "exited" =>
           /\ ts.closed
           /\ Len(history) = 1
           /\ history[1].task_name = ts.task_name

\* a block in which close() was called has been left by a failure
C31_Witness ==
    /\ ts.pc = "exited"
    /\ ts.exit = "failure"
    /\ ts.early
    /\ ts.closed
    /\ Len(history) = 1

\* C32: step() on a session that is not closed adds one to the step
\* counter, also beyond total_steps, and publishes an active record; when
\* no progress is passed the record carries counter / total_steps, which is
\* 0 when total_steps is 0 and 1 once the counter exceeds total_steps.
C32_StepCounts ==
    (ts.pc # "none" /\ ~ts.closed) =>
        \A description \in Descriptions, p \in StepProgress :
            LET w == PulseTask_step(SessionWorld, now, description, p)
                k == ts.current_step + 1
            IN  /\ w.ts.current_step = k
                /\ w.progress.active
                /\ w.progress.task_name = Some(ts.task_name)
                /\ w.progress.current_step
                       = Some(<<"Step", k, ts.total_steps, description>>)
                /\ p = None =>
                       w.progress.progress
                           = IF ts.total_steps = 0 THEN Zero
                             ELSE IF k > ts.total_steps THEN One
                             ELSE Frac(k, ts.total_steps)

\* the third step() of a session of two steps has published progress 1
C32_Witness ==
    /\ ts.pc = "entered"
    /\ ~ts.closed
    /\ ts.total_steps = 2
    /\ ts.current_step = 3
    /\ ts.calls = 3
    /\ progress.active
    /\ progress.progress = One
    /\ progress.current_step = Some(<<"Step", 3, 2, "Step 1">>)

-----------------------------------------------------------------------------
(* Claims about complete_task on any record, under LockSpec *)

\* C33: complete_task(name) writes the inactive template over the progress
\* record and puts an entry named name, stamped with the time of the call,
\* in front of the history, whichever task the record belongs to and
\* whether or not it is active.
C33_CompleteAnyTask ==
    /\ complete_task_state = InactiveTemplate
    /\ \A name \in Tasks :
           LET h == complete_task_history(progress, history, now, name)
           IN  /\ h[1].task_name = name
               /\ h[1].completed_at = now
               /\ SubSeq(h, 2, Len(h)) = Take(history, HistoryCap - 1)
    /\ cmp.pc = "history_written" =>
           /\ history[1].task_name = cmp.task_name
           /\ history[1].duration_seconds
                  = _calculate_duration(cmp.current, history[1].completed_at)

\* complete_task("U") has written its entry while the record was active for
\* task "T"
C33_Witness ==
    /\ cmp.pc = "history_written"
    /\ cmp.task_name = "U"
    /\ cmp.current.active
    /\ cmp.current.task_name = Some("T")
    /\ history[1].task_name = "U"

\* C34: when an exception escapes the with block, complete_task runs before
\* the error record is written: the task has its history entry, with the
\* duration of the record that was cleared, and the error record is active
\* with started_at and last_update both stamped at the time of the error
\* write, no earlier than the entry's completed_at.
C34_CompleteBeforeError ==
    /\ ts.pc = "entered" =>
           LET w == PulseTask__exit__(SessionWorld, now,
                                      Some("ValueError: Test error"))
           IN  /\ Len(w.history) = 1
               /\ w.history[1].task_name = ts.task_name
               /\ ~ts.closed =>
                      /\ w.history[1].completed_at = now
                      /\ w.history[1].duration_seconds
                             = _calculate_duration(progress, now)
               /\ w.progress.active
               /\ w.progress.error = Some("ValueError: Test error")
               /\ w.progress.started_at = Some(now)
               /\ w.progress.last_update = Some(now)
    /\ (ts.exit = "failure" /\ progress.active) =>
           /\ Len(history) = 1
           /\ history[1].task_name = ts.task_name
           /\ progress.started_at = progress.last_update
           /\ progress.started_at[1] >= history[1].completed_at
           /\ Truthy(progress.error)

\* the block was entered at one time and left by a failure at a later one:
\* the entry has a duration and the error record starts at the failure
C34_Witness ==
    /\ ts.exit = "failure"
    /\ ~ts.early
    /\ progress.active
    /\ Truthy(progress.error)
    /\ progress.started_at[1] > ts.start_time[1]
    /\ history[1].completed_at = progress.started_at[1]
    /\ history[1].duration_seconds = Some(progress.started_at[1]
                                              - ts.start_time[1])

\* C35: on a closed session step() and update_progress() write nothing and
\* leave the step counter alone, and the record a closed session has
\* cleared is not made active again by the session.
C35_ClosedSessionIsInert ==
    ts.closed =>
        /\ \A description \in Descriptions, p \in StepProgress :
               PulseTask_step(SessionWorld, now, description, p)
                   = SessionWorld
        /\ \A p \in ProgressInputs :
               PulseTask_update_progress(SessionWorld, now, p, None)
                   = SessionWorld
        /\ ~progress.active

-----------------------------------------------------------------------------
(* Claims about the store after the reaper, under Spec *)

\* C36: on the record the reaper leaves, and on the record it would leave
\* now, the next update_progress for the same task writes an active record
\* whose started_at is the time of that call, not the original start, and
\* complete_task writes an entry with no duration_seconds.
C36_ReapedRecordRestarts ==
    LET r == Reaped(progress, now)
    IN  (~r.active /\ Truthy(r.task_name)) =>
            /\ r.started_at = None
            /\ \A t \in now..MaxTime, p \in ProgressInputs, o \in Optionals :
                   LET u == Updated(r, t, r.task_name[1], p, o)
                   IN  /\ u.active
                       /\ u.task_name = r.task_name
                       /\ u.started_at = Some(t)
            /\ \A t \in now..MaxTime, name \in Tasks :
                   LET h == complete_task_history(r, history, t, name)
                   IN  /\ h[1].task_name = name
                       /\ h[1].duration_seconds = None

\* the reaper has deactivated a record that had been started and updated
C36_Witness ==
    /\ ~progress.active
    /\ Truthy(progress.task_name)
    /\ progress.started_at = None
    /\ progress.last_update = None
    /\ now > MaxIdleSeconds

====
